---------------------------- MODULE Spec2Model ----------------------------
(***************************************************************************)
(* Model of the tournament round/group engine of scrimverse-backend:       *)
(* TournamentGroupService in src/tournaments/services.py.                  *)
(*                                                                         *)
(* The database is the state: the TournamentRegistration rows, the         *)
(* selected_teams JSON mapping of the tournament under configuration, the  *)
(* Group rows (with their many-to-many teams) and the Match rows.  Rows    *)
(* are kept in creation order; a row's id is its position.                 *)
(*                                                                         *)
(* A service call runs synchronously, so one call is one action.  An       *)
(* exception that escapes in the middle of create_groups_for_round leaves  *)
(* behind whatever rows the loop had already written: the service opens no *)
(* transaction (the only transaction.atomic of the sources is in           *)
(* tasks.update_leaderboard).                                              *)
(***************************************************************************)
EXTENDS Integers, Sequences, FiniteSets, Bags, TLC

VARIABLES
    registrations,   \* TournamentRegistration rows: id -> [tournament, status]
    selected_teams,  \* tournament.selected_teams: str(round) -> list of ids
    groups,          \* Group rows, in creation order
    matches,         \* Match rows, in creation order
    ret,             \* outcome of the latest create_groups_for_round call
    ncalls,          \* number of create_groups_for_round calls made so far
    calc,            \* latest direct calculate_groups call: arguments, result
    scores,          \* MatchScore rows
    round_scores,    \* RoundScore rows, as a bag (a row twice is two rows)
    rounds,          \* tournament.rounds: list of round definitions
    out,             \* outcome of the latest scoring service or command call
    group_status,    \* Group.status of every Group row
    tournaments,     \* Tournament rows: id -> status, current_round, schedule
    now,             \* the clock
    runs,            \* the status update runs in flight: runner -> position
    started,         \* outcome of the latest start-tournament request
    stats,           \* TeamStatistics rows as committed: team -> totals, rank
    board,           \* the update_leaderboard run: position, open transaction
    reader,          \* the leaderboard request in flight and its response
    cache            \* the cache entry leaderboard:top50

vars == <<registrations, selected_teams, groups, matches, ret, ncalls, calc,
          scores, round_scores, rounds, out, group_status,
          tournaments, now, runs, started, stats, board, reader, cache>>

\* the state of the tournament lifecycle
lifecycle == <<tournaments, now, runs, started>>

\* the state of the team leaderboard
leaderboard == <<stats, board, reader, cache>>

\* the state the scoring services read and write
scoring == <<scores, round_scores, rounds, out>>

---------------------------------------------------------------------------
(* Bounds of the model. *)

\* registrations of the tournament in the small databases
MaxRegs == 3
\* create_groups_for_round calls in one behaviour
MaxCalls == 2
\* largest total_teams handed to calculate_groups directly
MaxTotal == 100

---------------------------------------------------------------------------
(* Program constants. *)

MAX_TEAMS_PER_GROUP == 25

group_letters ==
    << "A", "B", "C", "D", "E", "F", "G", "H", "I", "J", "K", "L", "M",
       "N", "O", "P", "Q", "R", "S", "T", "U", "V", "W", "X", "Y", "Z" >>

\* the tournament the calls configure, and some other tournament of the site
ThisTournament == "tournament"
OtherTournament == "other"

---------------------------------------------------------------------------
(* Python helpers. *)

RECURSIVE SumSeq(_)
SumSeq(s) == IF s = <<>> THEN 0 ELSE Head(s) + SumSeq(Tail(s))

\* max(s) of a non-empty list
MaxSeq(s) == CHOOSE m \in {s[i] : i \in DOMAIN s} : \A i \in DOMAIN s : s[i] <= m

Min2(a, b) == IF a < b THEN a ELSE b

\* s[lo:hi] for 0 <= lo <= hi: the elements at 0-based positions lo..hi-1,
\* cut off at the end of the list
PySlice(s, lo, hi) ==
    LET stop == Min2(hi, Len(s))
    IN  IF lo >= stop THEN <<>> ELSE [i \in 1..(stop - lo) |-> s[lo + i]]

Digits == << "0", "1", "2", "3", "4", "5", "6", "7", "8", "9" >>

\* str(n) of an int: decimal digits, with a sign for negative numbers
RECURSIVE StrNat(_)
StrNat(n) == IF n < 10 THEN Digits[n + 1] ELSE StrNat(n \div 10) \o Digits[(n % 10) + 1]

Str(n) == IF n < 0 THEN "-" \o StrNat(0 - n) ELSE StrNat(n)

\* d.get(key, []) on the JSON mapping
DictGet(d, key) == IF key \in DOMAIN d THEN d[key] ELSE <<>>

\* the elements of a list as a set
Elems(s) == {s[i] : i \in DOMAIN s}

\* a set of ids as the list a queryset yields (in id order)
RECURSIVE AsList(_)
AsList(S) ==
    IF S = {} THEN <<>>
    ELSE LET m == CHOOSE x \in S : \A y \in S : x <= y
         IN  <<m>> \o AsList(S \ {m})

Reverse(s) == [i \in 1..Len(s) |-> s[Len(s) + 1 - i]]

Orderings(s) ==
    LET n == Len(s)
        bij == {f \in [1..n -> 1..n] : \A i, j \in 1..n : f[i] = f[j] => i = j}
    IN  {[i \in 1..n |-> s[f[i]]] : f \in bij}

\* The orders random.shuffle can leave the list in.  Every permutation for
\* the pools of the small databases; for the large pool, whose outcomes of
\* interest (how many groups, of what sizes, which call fails) do not
\* depend on the order, two representatives.
Shuffles(teams) ==
    IF Len(teams) <= MaxRegs THEN Orderings(teams) ELSE {teams, Reverse(teams)}

---------------------------------------------------------------------------
(* calculate_groups *)

\* the messages of the exceptions the service raises
TeamsPerGroupExceedsError == "ValueError: Teams per group cannot exceed 25"
TeamsPerGroupNotPositiveError == "ValueError: Teams per group must be greater than 0"
DistributionExceedsError ==
    "ValueError: Configuration would result in groups exceeding max limit of 25"
EmptyMaxError == "ValueError: max() arg is an empty sequence"
NoTeamsError == "ValueError: No teams available for this round"
LetterIndexError == "IndexError: string index out of range"

Raised(msg) ==
    [raised |-> msg, num_groups |-> 0, teams_distribution |-> <<>>]

Returned(num_groups, teams_distribution) ==
    [raised |-> "none", num_groups |-> num_groups,
     teams_distribution |-> teams_distribution]

\* the two argument checks at the top of calculate_groups
ExceedsMaxTeams(teams_per_group) == teams_per_group > MAX_TEAMS_PER_GROUP

NotPositive(teams_per_group) == teams_per_group <= 0

\* num_groups: total // per group, one more when there is a remainder
NumGroups(total_teams, teams_per_group) ==
    LET num_groups == total_teams \div teams_per_group
        remainder == total_teams % teams_per_group
    IN  IF remainder > 0 THEN num_groups + 1 ELSE num_groups

\* (mutant) the remainder not handed out: every group gets teams_per_group
TeamsDistributionWithoutRemainder(num_groups, teams_per_group, remainder) ==
    [i \in 1..num_groups |-> teams_per_group]

\* the loop that fills teams_distribution (group i of the code is i - 1 here)
TeamsDistribution(num_groups, teams_per_group, remainder) ==
    [i \in 1..num_groups |->
        IF i - 1 < remainder THEN teams_per_group + 1 ELSE teams_per_group]

\* (mutant) the check after the loop off by one
DistributionExceedsMaxOffByOne(teams_distribution) ==
    MaxSeq(teams_distribution) > MAX_TEAMS_PER_GROUP + 1

\* the check after the loop
DistributionExceedsMax(teams_distribution) ==
    MaxSeq(teams_distribution) > MAX_TEAMS_PER_GROUP

\* (mutant) an out-of-range teams_per_group clamped into 1..25, not rejected
calculate_groups_clamped(total_teams, teams_per_group) ==
    LET per_group == IF teams_per_group > MAX_TEAMS_PER_GROUP
                     THEN MAX_TEAMS_PER_GROUP
                     ELSE IF teams_per_group <= 0 THEN 1 ELSE teams_per_group
        num_groups == NumGroups(total_teams, per_group)
        remainder == total_teams % per_group
        teams_distribution == TeamsDistribution(num_groups, per_group, remainder)
    IN  IF teams_distribution = <<>>
        THEN Raised(EmptyMaxError)
        ELSE IF DistributionExceedsMax(teams_distribution)
        THEN Raised(DistributionExceedsError)
        ELSE Returned(num_groups, teams_distribution)

calculate_groups(total_teams, teams_per_group) ==
    IF ExceedsMaxTeams(teams_per_group)
    THEN Raised(TeamsPerGroupExceedsError)
    ELSE IF NotPositive(teams_per_group)
    THEN Raised(TeamsPerGroupNotPositiveError)
    ELSE LET num_groups == NumGroups(total_teams, teams_per_group)
             remainder == total_teams % teams_per_group
             teams_distribution ==
                 TeamsDistribution(num_groups, teams_per_group, remainder)
         IN  IF teams_distribution = <<>>
             THEN Raised(EmptyMaxError)
             ELSE IF DistributionExceedsMax(teams_distribution)
             THEN Raised(DistributionExceedsError)
             ELSE Returned(num_groups, teams_distribution)

---------------------------------------------------------------------------
(* create_groups_for_round *)

\* (mutant) the status filter forgotten: every registration of the tournament
RegistrationsOfAnyStatus ==
    {id \in DOMAIN registrations : registrations[id].tournament = ThisTournament}

\* tournament.registrations.filter(status="confirmed")
ConfirmedRegistrations ==
    {id \in DOMAIN registrations :
        /\ registrations[id].tournament = ThisTournament
        /\ registrations[id].status = "confirmed"}

\* TournamentRegistration.objects.filter(id__in=qualified_team_ids)
QualifiedRegistrations(round_number) ==
    LET prev_round_key == Str(round_number - 1)
        qualified_team_ids == DictGet(selected_teams, prev_round_key)
    IN  {id \in DOMAIN registrations : id \in Elems(qualified_team_ids)}

\* the teams of the round
Pool(round_number) ==
    IF round_number = 1
    THEN ConfirmedRegistrations
    ELSE QualifiedRegistrations(round_number)

\* (mutant) the empty-pool guard dropped
NoTeamsGuardDropped(total_teams) == FALSE

\* (mutant) a duplicate-round guard added to the empty-pool guard
NoTeamsOrRoundHasGroups(total_teams) == total_teams = 0 \/ groups # <<>>

\* the guard before the distribution is computed
NoTeamsAvailable(total_teams) == total_teams = 0

\* team_index when the loop reaches group number group_num (0-based)
TeamIndex(teams_distribution, group_num) ==
    SumSeq(SubSeq(teams_distribution, 1, group_num))

\* the Group row the loop creates for group_num (0-based), with its teams
NewGroup(round_number, qualifying_per_group, teams, teams_distribution, group_num) ==
    LET team_index == TeamIndex(teams_distribution, group_num)
        num_teams_in_group == teams_distribution[group_num + 1]
        group_teams == PySlice(teams, team_index, team_index + num_teams_in_group)
    IN  [tournament |-> ThisTournament,
         round_number |-> round_number,
         group_name |-> "Group " \o group_letters[group_num + 1],
         qualifying_teams |-> qualifying_per_group,
         teams |-> Elems(group_teams)]

\* (mutant) the matches numbered from 0
create_matches_from_zero(group, num_matches) ==
    [match_num \in 1..num_matches |->
        [group |-> group, match_number |-> match_num - 1, status |-> "waiting"]]

\* create_matches_for_group: the Match rows of one group
create_matches_for_group(group, num_matches) ==
    [match_num \in 1..num_matches |->
        [group |-> group, match_number |-> match_num, status |-> "waiting"]]

\* the matches of the groups firstId..lastId, group after group
RECURSIVE MatchesOfGroups(_, _, _)
MatchesOfGroups(firstId, lastId, num_matches) ==
    IF firstId > lastId THEN <<>>
    ELSE create_matches_for_group(firstId, num_matches)
            \o MatchesOfGroups(firstId + 1, lastId, num_matches)

\* how many passes of the loop complete: group_letters[group_num] raises
\* IndexError at the pass for the 27th group, before that group is created
CompletedPasses(num_groups) == Min2(num_groups, Len(group_letters))

\* the status a Group row is created with
GroupStatusDefault == "pending"

NoCall ==
    [round_number |-> 0, teams_per_group |-> 0, matches_per_group |-> 0,
     pool |-> {}, raised |-> "not called", num_groups |-> 0, created |-> {}]

Failed(round_number, teams_per_group, matches_per_group, pool, msg) ==
    [round_number |-> round_number, teams_per_group |-> teams_per_group,
     matches_per_group |-> matches_per_group,
     pool |-> pool, raised |-> msg, num_groups |-> 0, created |-> {}]

create_groups_for_round(round_number, teams_per_group, qualifying_per_group, matches_per_group) ==
    LET pool == Pool(round_number)
        total_teams == Cardinality(pool)
        cg == calculate_groups(total_teams, teams_per_group)
    IN  /\ ncalls < MaxCalls
        /\ ncalls' = ncalls + 1
        /\ UNCHANGED <<registrations, selected_teams, calc, scoring,
                       lifecycle, leaderboard>>
        /\ IF NoTeamsAvailable(total_teams)
           THEN /\ ret' = Failed(round_number, teams_per_group, matches_per_group,
                                 pool, NoTeamsError)
                /\ UNCHANGED <<groups, matches, group_status>>
           ELSE IF cg.raised # "none"
           THEN /\ ret' = Failed(round_number, teams_per_group, matches_per_group,
                                 pool, cg.raised)
                /\ UNCHANGED <<groups, matches, group_status>>
           ELSE \E teams \in Shuffles(AsList(pool)) :
                  LET passes == CompletedPasses(cg.num_groups)
                      newGroups ==
                          [g \in 1..passes |->
                              NewGroup(round_number, qualifying_per_group, teams,
                                       cg.teams_distribution, g - 1)]
                      firstId == Len(groups) + 1
                      lastId == Len(groups) + passes
                  IN  /\ groups' = groups \o newGroups
                      /\ group_status' = group_status
                            \o [g \in 1..passes |-> GroupStatusDefault]
                      /\ matches' = matches
                            \o MatchesOfGroups(firstId, lastId, matches_per_group)
                      /\ ret' = [round_number |-> round_number,
                                 teams_per_group |-> teams_per_group,
                                 matches_per_group |-> matches_per_group,
                                 pool |-> pool,
                                 raised |-> IF passes < cg.num_groups
                                            THEN LetterIndexError
                                            ELSE "none",
                                 num_groups |-> cg.num_groups,
                                 created |-> firstId..lastId]

---------------------------------------------------------------------------
(* Inputs and initial states. *)

RoundInputs == {1, 2}
QualifyingInputs == {1}

\* the configurations tried, <<teams_per_group, matches_per_group>>
ConfigInputs == {<<0, 2>>, <<1, 2>>, <<2, 2>>, <<24, 1>>, <<25, 0>>, <<26, 2>>}
TeamsPerGroupInputs == {config[1] : config \in ConfigInputs}
MatchesInputs == {config[2] : config \in ConfigInputs}

\* one more team than there are group letters
LargeRegs == Len(group_letters) + 1

\* the small databases: MaxRegs registrations of this tournament, each
\* confirmed or pending, and one confirmed registration of another tournament
OtherRegistration == MaxRegs + 1

SmallDatabases ==
    {r \in [1..OtherRegistration ->
               [tournament : {ThisTournament, OtherTournament},
                status : {"confirmed", "pending"}]] :
        \A id \in 1..OtherRegistration :
            IF id = OtherRegistration
            THEN r[id] = [tournament |-> OtherTournament, status |-> "confirmed"]
            ELSE r[id].tournament = ThisTournament}

\* the large database: LargeRegs confirmed registrations of this tournament
LargeDatabase ==
    [id \in 1..LargeRegs |-> [tournament |-> ThisTournament, status |-> "confirmed"]]

\* an id no registration row has
DeletedRegistration == MaxRegs + 2

\* selected_teams as earlier round advancements can have left it: no key,
\* an empty list, a key of another round only, the id of a row that no
\* longer exists, ids in any order, an id twice
SelectedTeamsInputs ==
    { <<>>,
      [k \in {"1"} |-> <<>>],
      [k \in {"2"} |-> <<1>>],
      [k \in {"1"} |-> <<DeletedRegistration>>],
      [k \in {"1"} |-> <<2, 1>>],
      [k \in {"1"} |-> <<OtherRegistration, 1, DeletedRegistration, 1>>] }

CalcIdle == [total_teams |-> 0, teams_per_group |-> 0, result |-> Raised("not called")]

\* no Tournament row is looked at, no status update run is in flight
LifecycleIdle ==
    /\ tournaments = <<>>
    /\ now = 0
    /\ runs = <<>>
    /\ started = [result |-> "none"]

\* no TeamStatistics row exists, no leaderboard run or request is in flight
LeaderboardIdle ==
    /\ stats = <<>>
    /\ board = [pc |-> "idle"]
    /\ reader = [pc |-> "idle"]
    /\ cache = [set |-> FALSE]

\* no scoring service has been called, no score exists, no round is configured
ScoringIdle ==
    /\ scores = {}
    /\ round_scores = EmptyBag
    /\ rounds = <<>>
    /\ out = [op |-> "none"]

Init ==
    /\ \/ /\ registrations \in SmallDatabases
          /\ selected_teams \in SelectedTeamsInputs
       \/ /\ registrations = LargeDatabase
          /\ selected_teams = <<>>
    /\ groups = <<>>
    /\ matches = <<>>
    /\ ret = NoCall
    /\ ncalls = 0
    /\ calc = CalcIdle
    /\ ScoringIdle
    /\ group_status = <<>>
    /\ LifecycleIdle
    /\ LeaderboardIdle

ConfigureRound ==
    \E round_number \in RoundInputs, config \in ConfigInputs,
       qualifying_per_group \in QualifyingInputs :
      LET teams_per_group == config[1]
          matches_per_group == config[2]
      IN
        create_groups_for_round(round_number, teams_per_group,
                                qualifying_per_group, matches_per_group)

Next == ConfigureRound

Spec == Init /\ [][Next]_vars

---------------------------------------------------------------------------
(* calculate_groups on its own: the arguments are drawn in the initial     *)
(* state and the call records its result.                                  *)

CalcTotals == 0..MaxTotal
CalcTeamsPerGroup == (0 - 2)..(MAX_TEAMS_PER_GROUP + 2)

InitCalc ==
    /\ registrations = <<>>
    /\ selected_teams = <<>>
    /\ groups = <<>>
    /\ matches = <<>>
    /\ ret = NoCall
    /\ ncalls = 0
    /\ ScoringIdle
    /\ group_status = <<>>
    /\ LifecycleIdle
    /\ LeaderboardIdle
    /\ \E t \in CalcTotals, p \in CalcTeamsPerGroup :
          calc = [total_teams |-> t, teams_per_group |-> p,
                  result |-> Raised("not called")]

CalculateGroups ==
    /\ calc.result.raised = "not called"
    /\ calc' = [calc EXCEPT !.result = calculate_groups(calc.total_teams,
                                                         calc.teams_per_group)]
    /\ UNCHANGED <<registrations, selected_teams, groups, matches, ret, ncalls,
                   scoring, group_status, lifecycle, leaderboard>>

NextCalc == CalculateGroups

SpecCalc == InitCalc /\ [][NextCalc]_vars

---------------------------------------------------------------------------
(* MatchScore rows, group standings and qualification. *)

\* the sum of f[x] over the rows x of S
RECURSIVE SumOver(_, _)
SumOver(f, S) ==
    IF S = {} THEN 0
    ELSE LET x == CHOOSE y \in S : TRUE
         IN  f[x] + SumOver(f, S \ {x})

\* aggregate(Sum(...)): None over no rows, else the sum
DjangoSum(f, rows) ==
    IF rows = {}
    THEN [none |-> TRUE, value |-> 0]
    ELSE [none |-> FALSE, value |-> SumOver(f, rows)]

\* Python's (x or 0)
OrZero(x) == IF x.none \/ x.value = 0 THEN 0 ELSE x.value

\* Python's s[:k]: a negative k counts from the end, and the stop is clamped
PyPrefix(s, k) ==
    LET stop == IF k < 0
                THEN (IF Len(s) + k < 0 THEN 0 ELSE Len(s) + k)
                ELSE Min2(k, Len(s))
    IN  SubSeq(s, 1, stop)

\* (mutant) s[:k + 1]
PyPrefixOneMore(s, k) == PyPrefix(s, k + 1)

\* standings[:qualifying_per_group]
QualifiedSlice(standings, qualifying_per_group) ==
    PyPrefix(standings, qualifying_per_group)

\* (mutant) the group filter forgotten: every MatchScore row of the team
TeamMatchScores(group, team) == {s \in scores : s.team = team}

\* MatchScore.objects.filter(match__group=group, team=team)
GroupMatchScores(group, team) ==
    {s \in scores : matches[s.match].group = group /\ s.team = team}

\* the standing record of one team of the group (team_name left out)
Standing(group, team) ==
    LET rows == GroupMatchScores(group, team)
        total_pp == DjangoSum([s \in rows |-> s.position_points], rows)
        total_kp == DjangoSum([s \in rows |-> s.kill_points], rows)
        total_wins == DjangoSum([s \in rows |-> s.wins], rows)
        total_points == OrZero(total_pp) + OrZero(total_kp)
    IN  [team_id |-> team,
         position_points |-> OrZero(total_pp),
         kill_points |-> OrZero(total_kp),
         wins |-> OrZero(total_wins),
         total_points |-> total_points]

\* (mutant) ties broken by kill_points: x goes before the records of its
\* total that have fewer kill points
InsertByTotalThenKills(sorted, x) ==
    LET k == Cardinality({i \in DOMAIN sorted :
                              \/ sorted[i].total_points > x.total_points
                              \/ /\ sorted[i].total_points = x.total_points
                                 /\ sorted[i].kill_points >= x.kill_points})
    IN  SubSeq(sorted, 1, k) \o <<x>> \o SubSeq(sorted, k + 1, Len(sorted))

\* the place of x in a list already sorted by total_points descending:
\* after every record whose total is at least its own
InsertByTotal(sorted, x) ==
    LET k == Cardinality({i \in DOMAIN sorted :
                              sorted[i].total_points >= x.total_points})
    IN  SubSeq(sorted, 1, k) \o <<x>> \o SubSeq(sorted, k + 1, Len(sorted))

\* (mutant) the sort left out
StandingsUnsorted(standings) == standings

\* standings.sort(key=total_points, reverse=True): stable, so records with
\* equal totals keep the order they were appended in
RECURSIVE StandingsSort(_)
StandingsSort(standings) ==
    IF standings = <<>> THEN <<>>
    ELSE InsertByTotal(StandingsSort(SubSeq(standings, 1, Len(standings) - 1)),
                       standings[Len(standings)])

\* calculate_group_standings; teams is group.teams.all() in the order the
\* database yields it
calculate_group_standings(group, teams) ==
    StandingsSort([i \in DOMAIN teams |-> Standing(group, teams[i])])

\* select_qualifying_teams
select_qualifying_teams(group, qualifying_per_group, teams) ==
    LET standings == calculate_group_standings(group, teams)
        qualified_teams == QualifiedSlice(standings, qualifying_per_group)
    IN  [i \in DOMAIN qualified_teams |-> qualified_teams[i].team_id]

\* the orders group.teams.all() can yield: no ordering is requested
MembershipOrders(group) == Orderings(AsList(groups[group].teams))

---------------------------------------------------------------------------
(* RoundScore rows, round aggregation and the tournament winner. *)

MultipleObjectsError == "MultipleObjectsReturned: get() returned more than one RoundScore"
NoRoundsError == "ValueError: Tournament has no rounds configured"
NoScoresError == "ValueError: No scores found for final round"

\* the RoundScore rows of (tournament, round_number, team)
RoundScoreRows(rows, round_number, team) ==
    {r \in BagToSet(rows) :
        /\ r.tournament = ThisTournament
        /\ r.round_number = round_number
        /\ r.team = team}

\* how many RoundScore rows (tournament, round_number, team) has
RoundScoreCount(rows, round_number, team) ==
    LET found == RoundScoreRows(rows, round_number, team)
    IN  SumOver([r \in found |-> CopiesIn(r, rows)], found)

\* a RoundScore row as it is created, before its total is computed
FreshRoundScore(round_number, team) ==
    [tournament |-> ThisTournament, round_number |-> round_number,
     team |-> team, total_points |-> 0]

\* (mutant) a row is created whether or not one exists
always_create(rows, round_number, team) ==
    [rows |-> rows (+) SetToBag({FreshRoundScore(round_number, team)}),
     round_score |-> FreshRoundScore(round_number, team)]

\* RoundScore.objects.get_or_create(tournament, round_number, team), for a
\* key with at most one row: the table afterwards and the row returned
get_or_create(rows, round_number, team) ==
    LET found == RoundScoreRows(rows, round_number, team)
    IN  IF found = {}
        THEN [rows |-> rows (+) SetToBag({FreshRoundScore(round_number, team)}),
              round_score |-> FreshRoundScore(round_number, team)]
        ELSE [rows |-> rows, round_score |-> CHOOSE r \in found : TRUE]

\* the MatchScore rows of the team in matches of groups of the row's round
RoundMatchScores(round_score) ==
    {s \in scores :
        /\ s.team = round_score.team
        /\ groups[matches[s.match].group].tournament = round_score.tournament
        /\ groups[matches[s.match].group].round_number = round_score.round_number}

\* the row with another total, saved
SavedTotal(rows, round_score, total_points) ==
    (rows (-) SetToBag({round_score}))
        (+) SetToBag({[round_score EXCEPT !.total_points = total_points]})

\* (mutant) the total added to instead of recomputed
add_from_matches(rows, round_score) ==
    LET found == RoundMatchScores(round_score)
    IN  SavedTotal(rows, round_score,
                   round_score.total_points
                       + SumOver([s \in found |-> s.total_points], found))

\* RoundScore.calculate_from_matches: the total recomputed from the
\* MatchScore rows and saved
calculate_from_matches(rows, round_score) ==
    LET found == RoundMatchScores(round_score)
    IN  SavedTotal(rows, round_score,
                   SumOver([s \in found |-> s.total_points], found))

\* Group.objects.filter(tournament=tournament, round_number=round_number)
RoundGroups(round_number) ==
    {g \in DOMAIN groups :
        /\ groups[g].tournament = ThisTournament
        /\ groups[g].round_number = round_number}

\* the teams the two loops visit
RoundTeams(round_number) ==
    UNION {groups[g].teams : g \in RoundGroups(round_number)}

\* the body of the loops for the teams of the list, one after the other
RECURSIVE AggregateTeams(_, _, _)
AggregateTeams(rows, round_number, teams) ==
    IF teams = <<>> THEN rows
    ELSE LET got == get_or_create(rows, round_number, Head(teams))
         IN  AggregateTeams(calculate_from_matches(got.rows, got.round_score),
                            round_number, Tail(teams))

\* (mutant) the first configured round taken for the final round
FirstRound(round_defs) ==
    CHOOSE n \in {round_defs[i].round : i \in DOMAIN round_defs} :
        \A i \in DOMAIN round_defs : n <= round_defs[i].round

\* max(r["round"] for r in tournament.rounds)
FinalRound(round_defs) == MaxSeq([i \in DOMAIN round_defs |-> round_defs[i].round])

\* (mutant) the round filter forgotten
TournamentScores(final_round) ==
    {r \in BagToSet(round_scores) : r.tournament = ThisTournament}

\* RoundScore.objects.filter(tournament=tournament, round_number=final_round)
FinalScores(final_round) ==
    {r \in BagToSet(round_scores) :
        /\ r.tournament = ThisTournament
        /\ r.round_number = final_round}

\* (mutant) ascending order: the rows order_by("total_points") can put first
BottomRows(final_scores) ==
    {r \in final_scores : \A q \in final_scores : r.total_points <= q.total_points}

\* the rows order_by("-total_points") can put first
TopRows(final_scores) ==
    {r \in final_scores : \A q \in final_scores : r.total_points >= q.total_points}

\* no team is returned
NoTeam == 0

---------------------------------------------------------------------------
(* The scoring services on configured tournaments. *)

\* matches that can have scores at once
MaxSubmits == 2

\* the registrations of a scored tournament: four of this tournament, the
\* last of them confirmed or pending, and one of another tournament
ScoredTeams == 4
OtherTeam == ScoredTeams + 1

ScoredDatabase(last_status) ==
    [id \in 1..OtherTeam |->
        IF id = OtherTeam
        THEN [tournament |-> OtherTournament, status |-> "confirmed"]
        ELSE [tournament |-> ThisTournament,
              status |-> IF id = ScoredTeams THEN last_status ELSE "confirmed"]]

\* the groups one create_groups_for_round call creates when the shuffle
\* leaves the pool in id order
GroupsOfCall(round_number, teams_per_group, qualifying_per_group) ==
    LET teams == AsList(Pool(round_number))
        cg == calculate_groups(Len(teams), teams_per_group)
    IN  [g \in 1..cg.num_groups |->
            NewGroup(round_number, qualifying_per_group, teams,
                     cg.teams_distribution, g - 1)]

\* Round 1 configured with 2 teams per group and 1 match per group, teams 1
\* and 3 advanced, round 2 configured with 2 matches per group.
TwoRoundsConfigured ==
    /\ registrations = ScoredDatabase("confirmed")
    /\ selected_teams = [k \in {"1"} |-> <<1, 3>>]
    /\ groups = GroupsOfCall(1, 2, 1) \o GroupsOfCall(2, 2, 1)
    /\ matches = MatchesOfGroups(1, 2, 1) \o MatchesOfGroups(3, 3, 2)

\* Round 1 configured twice for three confirmed teams: every team is in two
\* groups of the round.
RoundConfiguredTwice ==
    /\ registrations = ScoredDatabase("pending")
    /\ selected_teams = <<>>
    /\ groups = GroupsOfCall(1, 24, 1) \o GroupsOfCall(1, 24, 1)
    /\ matches = MatchesOfGroups(1, 2, 1)

\* tournament.rounds as the host can have configured it
RoundsInputs ==
    { <<>>,
      <<[round |-> 1]>>,
      <<[round |-> 2], [round |-> 1]>> }

\* RoundScore rows present before any aggregation of this tournament: none,
\* or a row of another tournament and a row of round 1 that is out of date
StaleTotal == 99

RoundScoreInputs ==
    { EmptyBag,
      SetToBag({[tournament |-> OtherTournament, round_number |-> 2,
                 team |-> OtherTeam, total_points |-> StaleTotal],
                [tournament |-> ThisTournament, round_number |-> 1,
                 team |-> 1, total_points |-> StaleTotal]}) }

InitScoring ==
    /\ TwoRoundsConfigured \/ RoundConfiguredTwice
    /\ ret = NoCall
    /\ ncalls = 2
    /\ calc = CalcIdle
    /\ scores = {}
    /\ round_scores \in RoundScoreInputs
    /\ rounds \in RoundsInputs
    /\ out = [op |-> "none"]
    /\ group_status = [g \in DOMAIN groups |-> GroupStatusDefault]
    /\ LifecycleIdle
    /\ LeaderboardIdle

configuration == <<registrations, selected_teams, groups, matches, ret, ncalls, calc, group_status, lifecycle, leaderboard>>

\* the score sheets submitted: <<wins, position_points, kill_points>> for
\* the first, second and third team of the group
ScoreSheets ==
    { << <<1, 10, 5>>, <<0, 5, 2>>, <<0, 3, 0>> >>,
      << <<0, 5, 2>>, <<1, 10, 5>>, <<0, 8, 7>> >>,
      << <<1, 10, 5>>, <<0, 5, 10>>, <<0, 15, 0>> >> }

\* one MatchScore row; total_points is derived from the two point fields
MatchScoreRow(match, team, tuple) ==
    [match |-> match, team |-> team, wins |-> tuple[1],
     position_points |-> tuple[2], kill_points |-> tuple[3],
     total_points |-> tuple[2] + tuple[3]]

\* submit_match_scores: one MatchScore row per tuple of the list, for a match
\* without scores (a row is created once per team per match)
submit_match_scores(match, sheet) ==
    LET teams == AsList(groups[matches[match].group].teams)
    IN  /\ \A s \in scores : s.match # match
        /\ Cardinality({s.match : s \in scores}) < MaxSubmits
        /\ scores' = scores \cup
              {MatchScoreRow(match, teams[i], sheet[i]) : i \in DOMAIN teams}
        /\ out' = [op |-> "submit_match_scores"]
        /\ UNCHANGED <<configuration, round_scores, rounds>>

SubmitScores ==
    \E match \in DOMAIN matches, sheet \in ScoreSheets :
        submit_match_scores(match, sheet)

\* the qualifying counts tried
QualifyingCounts == {0 - 1, 0, 1, 2, 4}

GroupStandings ==
    \E group \in DOMAIN groups :
        \E teams \in MembershipOrders(group) :
            /\ out' = [op |-> "calculate_group_standings",
                       group |-> group,
                       teams |-> teams,
                       standings |-> calculate_group_standings(group, teams)]
            /\ UNCHANGED <<configuration, scores, round_scores, rounds>>

SelectQualifying ==
    \E group \in DOMAIN groups, qualifying_per_group \in QualifyingCounts :
        \E teams \in MembershipOrders(group) :
            /\ out' = [op |-> "select_qualifying_teams",
                       group |-> group,
                       teams |-> teams,
                       qualifying_per_group |-> qualifying_per_group,
                       team_ids |-> select_qualifying_teams(
                                        group, qualifying_per_group, teams)]
            /\ UNCHANGED <<configuration, scores, round_scores, rounds>>

NextStandings == SubmitScores \/ GroupStandings \/ SelectQualifying

SpecStandings == InitScoring /\ [][NextStandings]_vars

\* calculate_round_scores.  get() raises for a key with two rows; the rows
\* of the teams visited before that are already saved, and the order of the
\* visits is the database's.
calculate_round_scores(round_number) ==
    LET teams == RoundTeams(round_number)
        twice == {t \in teams :
                     RoundScoreCount(round_scores, round_number, t) > 1}
        again == /\ out.op = "calculate_round_scores"
                 /\ out.round_number = round_number
                 /\ out.raised = "none"
    IN  /\ UNCHANGED <<configuration, scores, rounds>>
        /\ IF twice = {}
           THEN /\ round_scores' =
                      AggregateTeams(round_scores, round_number, AsList(teams))
                /\ out' = [op |-> "calculate_round_scores",
                           round_number |-> round_number,
                           raised |-> "none",
                           again |-> again]
           ELSE /\ \E visited \in SUBSET (teams \ twice) :
                      round_scores' =
                          AggregateTeams(round_scores, round_number, AsList(visited))
                /\ out' = [op |-> "calculate_round_scores",
                           round_number |-> round_number,
                           raised |-> MultipleObjectsError,
                           again |-> FALSE]

CalculateRoundScores ==
    \E round_number \in RoundInputs : calculate_round_scores(round_number)

\* calculate_tournament_winner
calculate_tournament_winner ==
    /\ UNCHANGED <<configuration, scores, round_scores, rounds>>
    /\ IF rounds = <<>>
       THEN out' = [op |-> "calculate_tournament_winner",
                    raised |-> NoRoundsError, team |-> NoTeam]
       ELSE LET final_round == FinalRound(rounds)
                final_scores == FinalScores(final_round)
            IN  IF final_scores = {}
                THEN out' = [op |-> "calculate_tournament_winner",
                             raised |-> NoScoresError, team |-> NoTeam]
                ELSE \E first \in TopRows(final_scores) :
                        out' = [op |-> "calculate_tournament_winner",
                                raised |-> "none", team |-> first.team]

TournamentWinner == calculate_tournament_winner

NextRounds == SubmitScores \/ CalculateRoundScores \/ TournamentWinner

SpecRounds == InitScoring /\ [][NextRounds]_vars

---------------------------------------------------------------------------
(* Tournament statuses: the periodic update, as Celery task and as         *)
(* management command, and the host's start-tournament request.            *)

\* the last instant of the clock
MaxTime == 3

NumTournaments == 2

\* the two ways the periodic update is run
Runners == {"task", "command"}

\* the schedules tried, <<tournament_start, tournament_end>>
ScheduleInputs == {<<1, 2>>, <<0, 3>>, <<2, 2>>, <<2, 1>>}

\* a Tournament row as created: upcoming, no round started
NewTournament(schedule) ==
    [status |-> "upcoming", current_round |-> 0,
     tournament_start |-> schedule[1], tournament_end |-> schedule[2]]

\* no group is configured and no calculate_groups call is recorded
NothingConfigured ==
    /\ registrations = <<>>
    /\ selected_teams = <<>>
    /\ groups = <<>>
    /\ matches = <<>>
    /\ ret = NoCall
    /\ ncalls = 0
    /\ calc = CalcIdle
    /\ group_status = <<>>

RunIdle == [pc |-> "idle", now |-> 0]

InitLifecycle ==
    /\ NothingConfigured
    /\ ScoringIdle
    /\ LeaderboardIdle
    /\ tournaments \in [1..NumTournaments ->
                           {NewTournament(schedule) : schedule \in ScheduleInputs}]
    /\ now = 0
    /\ runs = [r \in Runners |-> RunIdle]
    /\ started = [result |-> "none"]

\* what the lifecycle operations leave alone
outside_lifecycle == <<registrations, selected_teams, groups, matches, ret, ncalls, calc, scoring, group_status, leaderboard>>

\* (mutant) the status filter of the update to ongoing forgotten
DueToStartAnyStatus(tournament, at) ==
    /\ tournament.tournament_start <= at
    /\ tournament.tournament_end > at

\* filter(tournament_start__lte=now, tournament_end__gt=now, status="upcoming")
DueToStart(tournament, at) ==
    /\ tournament.tournament_start <= at
    /\ tournament.tournament_end > at
    /\ tournament.status = "upcoming"

\* filter(tournament_end__lte=now, status__in=["upcoming", "ongoing"])
DueToComplete(tournament, at) ==
    /\ tournament.tournament_end <= at
    /\ tournament.status \in {"upcoming", "ongoing"}

\* .update(status="ongoing") on the first filter
UpdateToOngoing(at) ==
    [t \in DOMAIN tournaments |->
        IF DueToStart(tournaments[t], at)
        THEN [tournaments[t] EXCEPT !.status = "ongoing"]
        ELSE tournaments[t]]

\* .update(status="completed") on the second filter
UpdateToCompleted(at) ==
    [t \in DOMAIN tournaments |->
        IF DueToComplete(tournaments[t], at)
        THEN [tournaments[t] EXCEPT !.status = "completed"]
        ELSE tournaments[t]]

\* now = timezone.now()
RunReadsClock(r) ==
    /\ runs[r].pc = "idle"
    /\ runs' = [runs EXCEPT ![r] = [pc |-> "update to ongoing", now |-> now]]
    /\ UNCHANGED <<tournaments, now, started, outside_lifecycle>>

\* the first UPDATE statement
RunUpdatesToOngoing(r) ==
    /\ runs[r].pc = "update to ongoing"
    /\ tournaments' = UpdateToOngoing(runs[r].now)
    /\ runs' = [runs EXCEPT ![r].pc = "update to completed"]
    /\ UNCHANGED <<now, started, outside_lifecycle>>

\* the second UPDATE statement; the run ends (its counts, messages and
\* the tournament list cache key it deletes hold no Tournament field)
RunUpdatesToCompleted(r) ==
    /\ runs[r].pc = "update to completed"
    /\ tournaments' = UpdateToCompleted(runs[r].now)
    /\ runs' = [runs EXCEPT ![r] = RunIdle]
    /\ UNCHANGED <<now, started, outside_lifecycle>>

\* one step of a run of the periodic update
update_statuses(r) ==
    RunReadsClock(r) \/ RunUpdatesToOngoing(r) \/ RunUpdatesToCompleted(r)

\* the Celery task
update_tournament_statuses == update_statuses("task")

\* the management command update_tournament_status
update_tournament_status_command == update_statuses("command")

\* (mutant) the start time not looked at
CanStartAnyTime(tournament) == tournament.status = "upcoming"

\* the start request is accepted for an upcoming tournament whose start
\* time has come
CanStart(tournament) ==
    /\ tournament.status = "upcoming"
    /\ now >= tournament.tournament_start

\* POST /api/tournaments/<id>/start/ by the host
start_tournament(t) ==
    /\ IF CanStart(tournaments[t])
       THEN /\ tournaments' = [tournaments EXCEPT ![t].status = "ongoing",
                                                  ![t].current_round = 1]
            /\ started' = [tournament |-> t, at |-> now, result |-> "ok"]
       ELSE /\ UNCHANGED tournaments
            /\ started' = [tournament |-> t, at |-> now, result |-> "rejected"]
    /\ UNCHANGED <<now, runs, outside_lifecycle>>

StartTournament == \E t \in DOMAIN tournaments : start_tournament(t)

\* time passes
Tick ==
    /\ now < MaxTime
    /\ now' = now + 1
    /\ UNCHANGED <<tournaments, runs, started, outside_lifecycle>>

NextLifecycle ==
    \/ update_tournament_statuses
    \/ update_tournament_status_command
    \/ StartTournament
    \/ Tick

SpecLifecycle == InitLifecycle /\ [][NextLifecycle]_vars

---------------------------------------------------------------------------
(* Group statuses: the update_group_statuses command. *)

GroupStatuses == {"pending", "ongoing", "completed"}

\* Round 1 configured with 2 teams and 2 matches per group, teams 1 and 3
\* advanced, round 2 configured without matches; every group has the same
\* status.
InitGroupStatuses ==
    /\ registrations = ScoredDatabase("confirmed")
    /\ selected_teams = [k \in {"1"} |-> <<1, 3>>]
    /\ groups = GroupsOfCall(1, 2, 1) \o GroupsOfCall(2, 2, 1)
    /\ matches = MatchesOfGroups(1, 2, 2)
    /\ \E status \in GroupStatuses :
          group_status = [g \in DOMAIN groups |-> status]
    /\ ret = NoCall
    /\ ncalls = 2
    /\ calc = CalcIdle
    /\ ScoringIdle
    /\ LifecycleIdle
    /\ LeaderboardIdle

\* a match is played to its end (by the host, outside the services)
complete_match(match) ==
    /\ matches[match].status # "completed"
    /\ matches' = [matches EXCEPT ![match].status = "completed"]
    /\ out' = [op |-> "complete_match"]
    /\ UNCHANGED <<registrations, selected_teams, groups, ret, ncalls, calc>>
    /\ UNCHANGED <<scores, round_scores, rounds, group_status, lifecycle, leaderboard>>

CompleteMatch == \E match \in DOMAIN matches : complete_match(match)

\* the options tried: --tournament-id ("" when left out) and --round-number
\* (0 when left out)
TournamentIdOptions == {"", ThisTournament, OtherTournament}
RoundNumberOptions == {0, 1, 2}

\* the groups the command loops over
SelectedGroups(tournament_id, round_number) ==
    IF tournament_id # "" /\ round_number # 0
    THEN {g \in DOMAIN groups : /\ groups[g].tournament = tournament_id
                                /\ groups[g].round_number = round_number}
    ELSE IF tournament_id # ""
    THEN {g \in DOMAIN groups : groups[g].tournament = tournament_id}
    ELSE DOMAIN groups

\* group.matches.count()
TotalMatches(g) == Cardinality({m \in DOMAIN matches : matches[m].group = g})

\* group.matches.filter(status="completed").count()
CompletedMatches(g) ==
    Cardinality({m \in DOMAIN matches :
                    matches[m].group = g /\ matches[m].status = "completed"})

\* (mutant) the completed matches counted whether or not they have scores
CompletedMatchesScoredOrNot(g) == CompletedMatches(g)

\* the completed matches of the group for which match.scores.exists()
CompletedMatchesWithScores(g) ==
    Cardinality({m \in DOMAIN matches :
                    /\ matches[m].group = g
                    /\ matches[m].status = "completed"
                    /\ \E s \in scores : s.match = m})

\* the status the loop body leaves the group with
StatusAfterUpdate(g) ==
    IF /\ TotalMatches(g) > 0
       /\ CompletedMatches(g) = TotalMatches(g)
       /\ CompletedMatchesWithScores(g) = TotalMatches(g)
    THEN "completed"
    ELSE IF CompletedMatches(g) > 0
    THEN "ongoing"
    ELSE group_status[g]

\* one run of the command, taken alone
update_group_statuses(tournament_id, round_number) ==
    LET selected == SelectedGroups(tournament_id, round_number)
        updated == {g \in selected : StatusAfterUpdate(g) # group_status[g]}
    IN  /\ group_status' =
              [g \in DOMAIN groups |->
                  IF g \in selected THEN StatusAfterUpdate(g) ELSE group_status[g]]
        /\ out' = [op |-> "update_group_statuses",
                   processed |-> selected,
                   updated_count |-> Cardinality(updated),
                   again |-> /\ out.op = "update_group_statuses"
                             /\ out.processed = selected]
        /\ UNCHANGED <<registrations, selected_teams, groups, matches, ret, ncalls, calc>>
        /\ UNCHANGED <<scores, round_scores, rounds, lifecycle, leaderboard>>

UpdateGroupStatuses ==
    \E tournament_id \in TournamentIdOptions, round_number \in RoundNumberOptions :
        update_group_statuses(tournament_id, round_number)

NextGroupStatuses == SubmitScores \/ CompleteMatch \/ UpdateGroupStatuses

SpecGroupStatuses == InitGroupStatuses /\ [][NextGroupStatuses]_vars

---------------------------------------------------------------------------
(* The team leaderboard: update_leaderboard and the leaderboard view. *)

\* the teams that are not temporary; each has a TeamStatistics row
LeaderTeams == {1, 2, 3}

\* the totals a team's scores can add up to:
\* <<total_points, tournament_wins, total_kill_points>>
KeyInputs == {<<10, 0, 5>>, <<20, 0, 5>>, <<20, 1, 5>>}

\* the rank of a row that was never ranked
Unranked == 0

\* the TeamStatistics rows before a run: equal totals, never ranked or
\* ranked by an earlier run
StatsInputs ==
    { [t \in LeaderTeams |-> [key |-> <<10, 0, 5>>, rank |-> Unranked]],
      [t \in LeaderTeams |-> [key |-> <<10, 0, 5>>, rank |-> t]] }

BoardIdle == [pc |-> "idle", todo |-> {}, order |-> <<>>, written |-> 0, before |-> <<>>]
ReaderIdle == [pc |-> "idle", ranks |-> <<>>, total_teams |-> 0, hit |-> FALSE]

\* filter(rank__gt=0, rank__lte=limit).order_by("rank"), read in one query:
\* the rank of every ranked team
TopTeams(rows) ==
    [t \in {u \in DOMAIN rows : rows[u].rank > Unranked} |-> rows[t].rank]

InitLeaderboard ==
    /\ NothingConfigured
    /\ ScoringIdle
    /\ LifecycleIdle
    /\ stats \in StatsInputs
    /\ board = [BoardIdle EXCEPT !.before = TopTeams(stats)]
    /\ reader = ReaderIdle
    /\ cache = [set |-> FALSE]

\* what the leaderboard operations leave alone
outside_leaderboard == <<registrations, selected_teams, groups, matches, ret, ncalls, calc, scoring, group_status, lifecycle>>

\* a sorts before b under order_by("-total_points", "-tournament_wins",
\* "-total_kill_points")
KeyBefore(a, b) ==
    \/ a[1] > b[1]
    \/ a[1] = b[1] /\ a[2] > b[2]
    \/ a[1] = b[1] /\ a[2] = b[2] /\ a[3] > b[3]

\* the orders the all_stats query can yield: rows with equal keys in any order
RankOrders(rows) ==
    {o \in Orderings(AsList(DOMAIN rows)) :
        \A i, j \in DOMAIN o : i < j => ~KeyBefore(rows[o[j]].key, rows[o[i]].key)}

\* (mutant) no transaction: the k-th save is committed at once
WrittenThrough(rows, order, k) ==
    [rows EXCEPT ![order[k]].rank = k]

\* the committed rows after the k-th save inside transaction.atomic(): as
\* before, the write is not visible until the commit
VisibleAfterSave(rows, order, k) == rows

\* the committed rows after the transaction commits
Committed(rows, order) ==
    [t \in DOMAIN rows |->
        [rows[t] EXCEPT !.rank = CHOOSE k \in DOMAIN order : order[k] = t]]

\* the run starts: teams = Team.objects.filter(is_temporary=False)
BoardStarts ==
    /\ board.pc = "idle"
    /\ board' = [board EXCEPT !.pc = "totals", !.todo = LeaderTeams]
    /\ UNCHANGED <<stats, reader, cache, outside_leaderboard>>

\* one pass of the loop over the teams: the team's totals are recomputed
\* from its scores and saved
BoardTotals ==
    /\ board.pc = "totals"
    /\ \E t \in board.todo, key \in KeyInputs :
          /\ stats' = [stats EXCEPT ![t].key = key]
          /\ board' = [board EXCEPT !.todo = board.todo \ {t}]
    /\ UNCHANGED <<reader, cache, outside_leaderboard>>

\* with transaction.atomic(): the all_stats query is evaluated
BoardBegins ==
    /\ board.pc = "totals"
    /\ board.todo = {}
    /\ \E order \in RankOrders(stats) :
          board' = [board EXCEPT !.pc = "ranking", !.order = order,
                                 !.written = 0, !.before = TopTeams(stats)]
    /\ UNCHANGED <<stats, reader, cache, outside_leaderboard>>

\* stat.rank = rank; stat.save(update_fields=["rank"])
BoardSaves ==
    /\ board.pc = "ranking"
    /\ board.written < Len(board.order)
    /\ stats' = VisibleAfterSave(stats, board.order, board.written + 1)
    /\ board' = [board EXCEPT !.written = board.written + 1]
    /\ UNCHANGED <<reader, cache, outside_leaderboard>>

\* the end of the with block: the transaction commits
BoardCommits ==
    /\ board.pc = "ranking"
    /\ board.written = Len(board.order)
    /\ stats' = Committed(stats, board.order)
    /\ board' = [board EXCEPT !.pc = "clear cache"]
    /\ UNCHANGED <<reader, cache, outside_leaderboard>>

\* cache.delete("leaderboard:top50"); the run ends
BoardClearsCache ==
    /\ board.pc = "clear cache"
    /\ cache' = [set |-> FALSE]
    /\ board' = [board EXCEPT !.pc = "idle"]
    /\ UNCHANGED <<stats, reader, outside_leaderboard>>

update_leaderboard ==
    \/ BoardStarts
    \/ BoardTotals
    \/ BoardBegins
    \/ BoardSaves
    \/ BoardCommits
    \/ BoardClearsCache

\* LeaderboardView.get: the cached response, if there is one
ReaderUsesCache ==
    /\ reader.pc = "idle"
    /\ cache.set
    /\ reader' = [pc |-> "idle", ranks |-> cache.ranks,
                  total_teams |-> cache.total_teams, hit |-> TRUE]
    /\ UNCHANGED <<stats, board, cache, outside_leaderboard>>

\* LeaderboardView.get: the top teams query
ReaderFetches ==
    /\ reader.pc = "idle"
    /\ ~cache.set
    /\ reader' = [pc |-> "fetched", ranks |-> TopTeams(stats), total_teams |-> 0,
                  hit |-> FALSE]
    /\ UNCHANGED <<stats, board, cache, outside_leaderboard>>

\* LeaderboardView.get: the count query, cache.set and the response
ReaderCounts ==
    /\ reader.pc = "fetched"
    /\ LET total_teams == Cardinality(DOMAIN TopTeams(stats))
       IN  /\ reader' = [pc |-> "idle", ranks |-> reader.ranks,
                         total_teams |-> total_teams, hit |-> FALSE]
           /\ cache' = [set |-> TRUE, ranks |-> reader.ranks,
                        total_teams |-> total_teams]
    /\ UNCHANGED <<stats, board, outside_leaderboard>>

\* the cache entry times out
CacheExpires ==
    /\ cache.set
    /\ cache' = [set |-> FALSE]
    /\ UNCHANGED <<stats, board, reader, outside_leaderboard>>

LeaderboardView == ReaderUsesCache \/ ReaderFetches \/ ReaderCounts

NextLeaderboard == update_leaderboard \/ LeaderboardView \/ CacheExpires

SpecLeaderboard == InitLeaderboard /\ [][NextLeaderboard]_vars

---------------------------------------------------------------------------
(* The claims. *)

\* ceil(t / p) for p > 0
Ceil(t, p) == (t + p - 1) \div p

\* str(R - 1) for the rounds of the model, spelled out
PrevRoundKey(round_number) ==
    CASE round_number = 2 -> "1"
      [] round_number = 3 -> "2"
      [] OTHER -> "?"

\* the pool the specification gives round R
ClaimedPool(round_number) ==
    IF round_number = 1
    THEN {id \in DOMAIN registrations :
            registrations[id] = [tournament |-> ThisTournament, status |-> "confirmed"]}
    ELSE LET key == PrevRoundKey(round_number)
         IN  IF key \in DOMAIN selected_teams
             THEN {id \in DOMAIN registrations :
                     \E i \in DOMAIN selected_teams[key] : selected_teams[key][i] = id}
             ELSE {}

\* the latest call returned its list of groups
CallReturned == ret.raised = "none"

\* the latest call raised
CallRaised == ret.raised \notin {"none", "not called"}

\* the member count of a group row
Size(g) == Cardinality(groups[g].teams)

\* C1: for T >= 1 and 1 <= P <= 25, the sizes calculate_groups(T, P) returns
\* sum to exactly T.
C1_SizesSumToTotal ==
    ( /\ calc.result.raised = "none"
      /\ calc.total_teams >= 1
      /\ calc.teams_per_group \in 1..MAX_TEAMS_PER_GROUP )
    => SumSeq(calc.result.teams_distribution) = calc.total_teams

\* C2: after a successful create_groups_for_round the groups it created are
\* pairwise disjoint and their union is exactly the pool of the round.
C2_GroupsPartitionPool ==
    CallReturned =>
        /\ UNION {groups[g].teams : g \in ret.created} = ClaimedPool(ret.round_number)
        /\ \A g1, g2 \in ret.created :
              g1 # g2 => groups[g1].teams \cap groups[g2].teams = {}

\* C2 witness: a round-1 call returned two or more groups while the
\* tournament also has a pending registration, which is in none of them.
C2_Witness ==
    /\ CallReturned
    /\ ret.round_number = 1
    /\ Cardinality(ret.created) >= 2
    /\ \E id \in DOMAIN registrations :
          /\ registrations[id] = [tournament |-> ThisTournament, status |-> "pending"]
          /\ \A g \in ret.created : id \notin groups[g].teams

\* the latest step was a create_groups_for_round call
CallStep == ncalls' = ncalls + 1

\* the step left the Group, membership and Match rows as they were
NothingPersisted == groups' = groups /\ matches' = matches

\* C3: create_groups_for_round is all-or-nothing: a call that fails leaves
\* no Group, membership link or Match of its own behind.
C3_AllOrNothing ==
    [][(CallStep /\ ret'.raised # "none") => NothingPersisted]_vars

\* groups of the round of the latest call that an earlier call created
EarlierGroupsOfRound ==
    {g \in DOMAIN groups :
        groups[g].round_number = ret.round_number /\ g \notin ret.created}

\* C4 (as claimed): a second call for the same round fails and creates
\* nothing, and no registration is in two groups of one round.
C4_SecondCallRejected ==
    /\ EarlierGroupsOfRound # {} => (CallRaised /\ ret.created = {})
    /\ \A g1, g2 \in DOMAIN groups :
          (g1 # g2 /\ groups[g1].round_number = groups[g2].round_number)
              => groups[g1].teams \cap groups[g2].teams = {}

\* C4 (amended): the service has no duplicate-round guard.  A call for a
\* round that already has groups, with a non-empty pool, 1 <= P <= 24 and
\* at most 26 groups to make, succeeds like a first call: it adds
\* ceil(T / P) further groups, and every team of its pool that an earlier
\* group of the round holds is then a member of one of the new groups too.
C4_SecondCallSchedulesAgain ==
    ( /\ ret.raised # "not called"
      /\ EarlierGroupsOfRound # {}
      /\ ret.pool # {}
      /\ ret.teams_per_group \in 1..24
      /\ Ceil(Cardinality(ret.pool), ret.teams_per_group) <= 26 )
    => /\ CallReturned
       /\ Cardinality(ret.created) = Ceil(Cardinality(ret.pool), ret.teams_per_group)
       /\ \A g \in EarlierGroupsOfRound : \A t \in groups[g].teams \cap ret.pool :
             \E g2 \in ret.created : t \in groups[g2].teams

\* C4 witness: a call returned groups for a round that already had groups,
\* and some registration is now in two groups of that round.
C4_Witness ==
    /\ CallReturned
    /\ \E g \in EarlierGroupsOfRound, g2 \in ret.created :
          groups[g].teams \cap groups[g2].teams # {}

\* C5: with an empty pool (round 1 without confirmed registrations, round
\* R > 1 whose key is absent or lists no registration) the call fails with
\* the no-teams error and persists no Group and no Match.
C5_EmptyPoolFails ==
    [][(CallStep /\ ClaimedPool(ret'.round_number) = {})
          => (ret'.raised = NoTeamsError /\ NothingPersisted)]_vars

\* C5 witness: round 2 was refused for want of teams, its key being absent
\* from selected_teams, after round 1 had been given its groups.
C5_Witness ==
    /\ ret.raised = NoTeamsError
    /\ ret.round_number = 2
    /\ "1" \notin DOMAIN selected_teams
    /\ groups # <<>>

\* the invalid-configuration errors
InvalidConfigurationErrors ==
    {TeamsPerGroupExceedsError, TeamsPerGroupNotPositiveError, DistributionExceedsError}

\* teams-per-group out of bounds, or a distribution above the cap
BadConfiguration(total_teams, teams_per_group) ==
    \/ teams_per_group <= 0
    \/ teams_per_group > 25
    \/ (teams_per_group = 25 /\ total_teams % 25 # 0)

\* calculate_groups rejects every P <= 0 and every P > 25, whatever T
CalcRejectsBadTeamsPerGroup ==
    \A t \in CalcTotals, p \in CalcTeamsPerGroup :
        (p <= 0 \/ p > 25) => calculate_groups(t, p).raised \in InvalidConfigurationErrors

\* C6: calculate_groups fails with an invalid-configuration error when
\* P <= 0 or P > 25, for every T; create_groups_for_round called with such
\* a P, or with a configuration whose distribution exceeds the cap, fails
\* (with that error when it has a pool) and persists no Group and no Match.
C6_InvalidConfigurationFails ==
    [][/\ CalcRejectsBadTeamsPerGroup
       /\ (CallStep /\ BadConfiguration(Cardinality(ret'.pool), ret'.teams_per_group))
            => /\ ret'.raised # "none"
               /\ NothingPersisted
               /\ ret'.pool # {} => ret'.raised \in InvalidConfigurationErrors]_vars

\* C6 witness: a round that has teams was refused for teams_per_group > 25
\* after an earlier call had created groups, which are all there is.
C6_Witness ==
    /\ ret.teams_per_group > 25
    /\ ret.pool # {}
    /\ ret.raised = TeamsPerGroupExceedsError
    /\ groups # <<>>
    /\ ret.created = {}

\* calculate_groups returns no distribution with a size above 25
CalcWithinCap ==
    \A t \in CalcTotals, p \in CalcTeamsPerGroup :
        LET r == calculate_groups(t, p)
        IN  r.raised = "none" =>
                \A i \in DOMAIN r.teams_distribution : r.teams_distribution[i] <= 25

\* C7: no group has more than 25 member teams, and calculate_groups never
\* returns a distribution with a size greater than 25.
C7_GroupSizeWithinCap ==
    /\ CalcWithinCap
    /\ \A g \in DOMAIN groups : Size(g) <= 25

\* C7 witness: a group with exactly 25 member teams exists.
C7_Witness == \E g \in DOMAIN groups : Size(g) = 25

\* C8: no group created by a call has more than teams_per_group members.
C8_TeamsPerGroupIsMaximum ==
    \A g \in ret.created : Size(g) <= ret.teams_per_group

\* C9: the member counts of any two groups created by one call differ by
\* at most 1.
C9_GroupsRoughlyEqual ==
    CallReturned =>
        \A g1, g2 \in ret.created : Size(g1) - Size(g2) <= 1

\* calculate_groups returns ceil(T / P) as num_groups, with as many sizes
CalcNumGroupsIsCeil ==
    \A t \in CalcTotals, p \in CalcTeamsPerGroup :
        LET r == calculate_groups(t, p)
        IN  (t >= 1 /\ p \in 1..25 /\ r.raised = "none") =>
                /\ r.num_groups = Ceil(t, p)
                /\ Len(r.teams_distribution) = r.num_groups

\* C10: where calculate_groups(T, P) succeeds it returns num_groups =
\* ceil(T / P) and that many sizes, and create_groups_for_round then
\* creates exactly that many groups.
C10_CreatesCeilGroups ==
    /\ CalcNumGroupsIsCeil
    /\ ret.num_groups > 0 =>
          /\ ret.num_groups = Ceil(Cardinality(ret.pool), ret.teams_per_group)
          /\ Cardinality(ret.created) = ret.num_groups

\* the balanced sizes of t teams over g groups: the first t mod g groups
\* have floor(t / g) + 1 teams, the others floor(t / g)
Balanced(t, g) ==
    [i \in 1..g |-> IF i <= t % g THEN (t \div g) + 1 ELSE t \div g]

\* C11: calculate_groups(T, P) returns the balanced distribution over
\* G = ceil(T / P) groups; calculate_groups(100, 24) returns 5 groups of 20.
C11_BalancedDistribution ==
    ( /\ calc.result.raised # "not called"
      /\ calc.total_teams >= 1
      /\ calc.teams_per_group \in 1..MAX_TEAMS_PER_GROUP )
    => calc.result =
          Returned(Ceil(calc.total_teams, calc.teams_per_group),
                   Balanced(calc.total_teams,
                            Ceil(calc.total_teams, calc.teams_per_group)))

\* the Match rows of group g
MatchesOf(g) == {m \in DOMAIN matches : matches[m].group = g}

\* C12: every group a call created has exactly M = matches_per_group
\* matches, numbered 1..M with each number once, each waiting and without
\* score rows; so the G groups of a call have G * M matches.
C12_MatchesPerGroup ==
    /\ \A g \in ret.created :
          /\ Cardinality(MatchesOf(g)) = ret.matches_per_group
          /\ \A n \in 1..ret.matches_per_group :
                Cardinality({m \in MatchesOf(g) : matches[m].match_number = n}) = 1
          /\ \A m \in MatchesOf(g) :
                /\ matches[m].status = "waiting"
                /\ \A s \in scores : s.match # m
    /\ Cardinality({m \in DOMAIN matches : matches[m].group \in ret.created})
          = Cardinality(ret.created) * ret.matches_per_group

C12_Witness ==
    /\ CallReturned
    /\ Cardinality(ret.created) = 2
    /\ ret.matches_per_group = 2
    /\ Cardinality({m \in DOMAIN matches : matches[m].group \in ret.created}) = 4

\* C13: the groups of a call are named Group A, Group B, ... in creation
\* order, and a round that needs 26 or more groups is created whole, every
\* group under a name of its own.
C13_NamesEveryGroup ==
    ret.num_groups > 0 =>
        /\ \A g \in ret.created :
              \E k \in 1..Len(group_letters) :
                  /\ g = Len(groups) - Cardinality(ret.created) + k
                  /\ groups[g].group_name = "Group " \o group_letters[k]
        /\ ret.num_groups >= Len(group_letters) =>
              /\ CallReturned
              /\ Cardinality(ret.created) = ret.num_groups
              /\ \A g1, g2 \in ret.created :
                    g1 # g2 => groups[g1].group_name # groups[g2].group_name

\* the MatchScore rows of team t in matches of group g
RowsInGroup(g, t) ==
    {s \in scores : s.team = t /\ matches[s.match].group = g}

PositionPoints(rows) == SumOver([s \in rows |-> s.position_points], rows)
KillPoints(rows) == SumOver([s \in rows |-> s.kill_points], rows)
Wins(rows) == SumOver([s \in rows |-> s.wins], rows)

\* C14: calculate_group_standings(group) returns one record per member team;
\* its position_points and kill_points are the sums over the team's
\* MatchScore rows in matches of that group only (0 without rows), its
\* total_points is their sum, and wins is reported but not added.
C14_StandingsSumGroupScores ==
    out.op = "calculate_group_standings" =>
        LET g == out.group
            st == out.standings
        IN  /\ Len(st) = Cardinality(groups[g].teams)
            /\ \A t \in groups[g].teams :
                  Cardinality({i \in DOMAIN st : st[i].team_id = t}) = 1
            /\ \A i \in DOMAIN st :
                  LET rows == RowsInGroup(g, st[i].team_id)
                  IN  /\ st[i].team_id \in groups[g].teams
                      /\ st[i].position_points = PositionPoints(rows)
                      /\ st[i].kill_points = KillPoints(rows)
                      /\ st[i].wins = Wins(rows)
                      /\ st[i].total_points
                            = PositionPoints(rows) + KillPoints(rows)

\* the standings X: 15, Y: 7 of a group one of whose teams also has a row in
\* a match of another group
C14_Witness ==
    /\ out.op = "calculate_group_standings"
    /\ Len(out.standings) = 2
    /\ out.standings[1].total_points = 15
    /\ out.standings[1].wins = 1
    /\ out.standings[2].total_points = 7
    /\ \E s \in scores :
          /\ s.team \in groups[out.group].teams
          /\ matches[s.match].group # out.group

\* C15: the list calculate_group_standings returns is sorted by total_points
\* descending: each record's total is at least the next one's.
C15_StandingsSortedDescending ==
    out.op = "calculate_group_standings" =>
        \A i \in 1..(Len(out.standings) - 1) :
            out.standings[i].total_points >= out.standings[i + 1].total_points

\* standings of three teams whose order is not the order of iteration
C15_Witness ==
    /\ out.op = "calculate_group_standings"
    /\ Len(out.standings) = 3
    /\ out.standings[1].total_points > out.standings[3].total_points
    /\ out.standings[1].team_id # out.teams[1]

\* C16: for K >= 0, select_qualifying_teams(group, K) returns exactly
\* min(K, n) distinct ids of members of the group, the first min(K, n)
\* entries of the standings; every returned team has at least the total of
\* every member not returned.
C16_SelectsTopK ==
    (out.op = "select_qualifying_teams" /\ out.qualifying_per_group >= 0) =>
        LET g == out.group
            K == out.qualifying_per_group
            n == Cardinality(groups[g].teams)
            ids == out.team_ids
            st == calculate_group_standings(g, out.teams)
            Total(t) == PositionPoints(RowsInGroup(g, t))
                            + KillPoints(RowsInGroup(g, t))
        IN  /\ Len(ids) = Min2(K, n)
            /\ Len(ids) <= n
            /\ \A i, j \in DOMAIN ids : ids[i] = ids[j] => i = j
            /\ \A i \in DOMAIN ids : ids[i] \in groups[g].teams
            /\ \A i \in DOMAIN ids : ids[i] = st[i].team_id
            /\ \A t \in Elems(ids), u \in groups[g].teams \ Elems(ids) :
                  Total(t) >= Total(u)

\* more teams asked for than the group has, and the scored group's best
\* team is not the first of the iteration
C16_Witness ==
    /\ out.op = "select_qualifying_teams"
    /\ out.qualifying_per_group > Cardinality(groups[out.group].teams)
    /\ Len(out.team_ids) = 3
    /\ out.team_ids[1] # out.teams[1]
    /\ RowsInGroup(out.group, out.team_ids[1]) # {}

\* the MatchScore rows of team t in matches of groups of round R
RowsInRound(R, t) ==
    {s \in scores :
        /\ s.team = t
        /\ groups[matches[s.match].group].tournament = ThisTournament
        /\ groups[matches[s.match].group].round_number = R}

\* the teams that are members of some group of round R
MembersOfRound(R) ==
    {t \in DOMAIN registrations :
        \E g \in DOMAIN groups :
            /\ groups[g].tournament = ThisTournament
            /\ groups[g].round_number = R
            /\ t \in groups[g].teams}

\* the rows of the table, each once
Rows(table) == BagToSet(table)

\* a row of this tournament and round R
OfRound(r, R) == r.tournament = ThisTournament /\ r.round_number = R

C18_AggregationIdempotent ==
    [][ (out'.op = "calculate_round_scores" /\ out'.again) =>
            round_scores' = round_scores ]_vars

C18_Witness ==
    /\ out.op = "calculate_round_scores"
    /\ out.again
    /\ \E r \in Rows(round_scores) :
          OfRound(r, out.round_number) /\ r.total_points > 0

\* the greatest round number of tournament.rounds
LastRound ==
    CHOOSE n \in {rounds[i].round : i \in DOMAIN rounds} :
        \A i \in DOMAIN rounds : rounds[i].round <= n

\* the sum of the team's RoundScore totals over all rounds
Cumulative(t) ==
    LET own == {r \in Rows(round_scores) :
                   r.tournament = ThisTournament /\ r.team = t}
    IN  SumOver([r \in own |-> r.total_points * CopiesIn(r, round_scores)], own)

\* C19: the team calculate_tournament_winner returns has a RoundScore row of
\* the final round, the greatest round number of tournament.rounds, whose
\* total is at least every other total of that round, whatever the totals
\* of earlier rounds.
C19_WinnerIsFinalRoundTop ==
    (out.op = "calculate_tournament_winner" /\ out.raised = "none") =>
        \E r \in Rows(round_scores) :
            /\ OfRound(r, LastRound)
            /\ r.team = out.team
            /\ \A q \in Rows(round_scores) :
                  OfRound(q, LastRound) => r.total_points >= q.total_points

\* the winner of round 2 is behind another team of round 2 over both rounds
C19_Witness ==
    /\ out.op = "calculate_tournament_winner"
    /\ out.raised = "none"
    /\ LastRound = 2
    /\ \E q \in Rows(round_scores) :
          /\ OfRound(q, LastRound)
          /\ q.team # out.team
          /\ Cumulative(q.team) > Cumulative(out.team)

\* C20: calculate_tournament_winner fails with the no-rounds error when
\* tournament.rounds is empty, and with the different no-scores error when
\* no RoundScore row of the final round exists; it then returns no team and
\* changes nothing.
C20_WinnerErrors ==
    [][ out'.op = "calculate_tournament_winner" =>
          /\ NoRoundsError # NoScoresError
          /\ rounds = <<>> =>
                (out'.raised = NoRoundsError /\ out'.team = NoTeam)
          /\ ( /\ rounds # <<>>
               /\ \A r \in Rows(round_scores) : ~OfRound(r, LastRound) ) =>
                (out'.raised = NoScoresError /\ out'.team = NoTeam)
          /\ out'.raised # "none" =>
                UNCHANGED <<configuration, scores, round_scores, rounds>> ]_vars

\* no row of the final round, while rows of an earlier round exist
C20_Witness ==
    /\ out.op = "calculate_tournament_winner"
    /\ out.raised = NoScoresError
    /\ out.team = NoTeam
    /\ \E r \in Rows(round_scores) :
          r.tournament = ThisTournament /\ r.round_number < LastRound

\* C24: every group a successful create_groups_for_round call created has
\* at least one member team.
C24_NoEmptyGroup ==
    CallReturned => \A g \in ret.created : groups[g].teams # {}

\* C27: for T >= 1 and 1 <= P <= 25, calculate_groups(T, P) raises the
\* distribution-exceeds-cap error exactly when P = 25 and T is not a
\* multiple of 25, and returns a distribution otherwise.
C27_ExceedsExactlyAtCap ==
    ( /\ calc.result.raised # "not called"
      /\ calc.total_teams >= 1
      /\ calc.teams_per_group \in 1..MAX_TEAMS_PER_GROUP )
    => IF /\ calc.teams_per_group = MAX_TEAMS_PER_GROUP
          /\ calc.total_teams % MAX_TEAMS_PER_GROUP # 0
       THEN calc.result.raised = DistributionExceedsError
       ELSE /\ calc.result.raised = "none"
            /\ calc.result.teams_distribution # <<>>

\* fewer teams than the cap, at the cap: the only group would have 26
C27_Witness ==
    /\ calc.result.raised = DistributionExceedsError
    /\ calc.teams_per_group = MAX_TEAMS_PER_GROUP
    /\ calc.total_teams < MAX_TEAMS_PER_GROUP

\* C28: select_qualifying_teams(group, K) returns an empty list for every
\* K <= 0, negative K included.
C28_NothingForNonPositive ==
    (out.op = "select_qualifying_teams" /\ out.qualifying_per_group <= 0)
        => out.team_ids = <<>>

\* the place of team t in the list s of team ids
PlaceIn(s, t) == CHOOSE i \in DOMAIN s : s[i] = t

\* the total of team t in group g
TotalInGroup(g, t) ==
    PositionPoints(RowsInGroup(g, t)) + KillPoints(RowsInGroup(g, t))

\* C29: teams with equal total_points stand in the order the membership was
\* iterated in, whatever their kill_points, wins and ids; so of two tied
\* teams at the cut-off select_qualifying_teams picks the one iterated first.
C29_TiesKeepIterationOrder ==
    /\ out.op = "calculate_group_standings" =>
          \A i, j \in DOMAIN out.standings :
              ( /\ i < j
                /\ out.standings[i].total_points = out.standings[j].total_points )
              => PlaceIn(out.teams, out.standings[i].team_id)
                    < PlaceIn(out.teams, out.standings[j].team_id)
    /\ (out.op = "select_qualifying_teams" /\ out.qualifying_per_group >= 0) =>
          \A t \in Elems(out.team_ids) :
              \A u \in groups[out.group].teams \ Elems(out.team_ids) :
                  TotalInGroup(out.group, t) = TotalInGroup(out.group, u)
                      => PlaceIn(out.teams, t) < PlaceIn(out.teams, u)

\* two tied teams, the later one with more kill points, more wins or the
\* smaller id
C29_Witness ==
    /\ out.op = "calculate_group_standings"
    /\ \E i, j \in DOMAIN out.standings :
          /\ i < j
          /\ out.standings[i].total_points = out.standings[j].total_points
          /\ out.standings[i].total_points > 0
          /\ out.standings[j].kill_points > out.standings[i].kill_points
          /\ out.standings[j].team_id < out.standings[i].team_id

\* the team's summed position_points + kill_points over the MatchScore rows
\* of round R
ScoreTotal(R, t) ==
    PositionPoints(RowsInRound(R, t)) + KillPoints(RowsInRound(R, t))

\* the returned team is maximal by MatchScore sums in the final round
WinnerIsScoreTop ==
    \A u \in MembersOfRound(LastRound) :
        ScoreTotal(LastRound, out.team) >= ScoreTotal(LastRound, u)

\* the RoundScore rows of round R are up to date: one row per member team of
\* the round, with the team's MatchScore sum, and no other row
UpToDate(R) ==
    /\ \A t \in MembersOfRound(R) : RoundScoreCount(round_scores, R, t) = 1
    /\ \A r \in Rows(round_scores) :
          OfRound(r, R) =>
              /\ r.team \in MembersOfRound(R)
              /\ r.total_points = ScoreTotal(R, r.team)

\* C26 as stated: whenever calculate_tournament_winner returns a team, its
\* MatchScore sum over the final round is maximal among the teams of the
\* final round, also when scores were submitted after the last aggregation.
C26_WinnerIsScoreTopAlways ==
    (out.op = "calculate_tournament_winner" /\ out.raised = "none")
        => WinnerIsScoreTop

\* C26 amended: the returned team is maximal by MatchScore sums when the
\* RoundScore rows of the final round are up to date with the MatchScore
\* rows, as calculate_round_scores for the final round leaves them.
C26_WinnerIsScoreTopWhenUpToDate ==
    ( /\ out.op = "calculate_tournament_winner"
      /\ out.raised = "none"
      /\ UpToDate(LastRound) )
        => WinnerIsScoreTop

\* a winner over up-to-date rows, ahead of another scored team
C26_Witness ==
    /\ out.op = "calculate_tournament_winner"
    /\ out.raised = "none"
    /\ UpToDate(LastRound)
    /\ \E u \in MembersOfRound(LastRound) :
          /\ ScoreTotal(LastRound, u) > 0
          /\ ScoreTotal(LastRound, out.team) > ScoreTotal(LastRound, u)

\* how far along upcoming -> ongoing -> completed a status is
Stage(status) ==
    IF status = "upcoming" THEN 0 ELSE IF status = "ongoing" THEN 1 ELSE 2

\* C21: over the runs of the periodic status update, as task or as command,
\* at non-decreasing times, a tournament's status only moves forward along
\* upcoming -> ongoing -> completed.
C21_StatusMovesForward ==
    [][ runs' # runs =>
          \A t \in DOMAIN tournaments :
              Stage(tournaments'[t].status) >= Stage(tournaments[t].status) ]_vars

\* a run working with an earlier reading of the clock finds a tournament
\* that a later run has already completed
C21_Witness ==
    \E r \in Runners, t \in DOMAIN tournaments :
        /\ runs[r].pc = "update to ongoing"
        /\ tournaments[t].status = "completed"
        /\ tournaments[t].tournament_start <= runs[r].now
        /\ runs[r].now < tournaments[t].tournament_end

\* C22: the start request succeeds only for an upcoming tournament at or
\* after tournament_start, and then sets status ongoing and current_round 1;
\* before tournament_start, or for an ongoing or completed tournament, it is
\* rejected and the tournament is left as it was.
C22_StartOnlyWhenDue ==
    [][ started' # started =>
          LET t == started'.tournament
          IN  IF /\ tournaments[t].status = "upcoming"
                 /\ now >= tournaments[t].tournament_start
              THEN /\ started'.result = "ok"
                   /\ tournaments'[t].status = "ongoing"
                   /\ tournaments'[t].current_round = 1
              ELSE /\ started'.result = "rejected"
                   /\ tournaments' = tournaments ]_vars

\* a request rejected before the start time and left upcoming
C22_Witness ==
    /\ started.result = "rejected"
    /\ tournaments[started.tournament].status = "upcoming"
    /\ started.at < tournaments[started.tournament].tournament_start
    /\ \E u \in DOMAIN tournaments :
          tournaments[u].status = "ongoing" /\ tournaments[u].current_round = 1

\* C25: under any interleaving of the periodic update and the start
\* request, an ongoing tournament has current_round >= 1.
C25_OngoingHasRound ==
    \A t \in DOMAIN tournaments :
        tournaments[t].status = "ongoing" => tournaments[t].current_round >= 1

\* the group has a match, and every match of it is completed and has a
\* score row
AllPlayedAndScored(g) ==
    /\ MatchesOf(g) # {}
    /\ \A m \in MatchesOf(g) :
          /\ matches[m].status = "completed"
          /\ \E s \in scores : s.match = m

\* C30: a run of update_group_statuses sets a processed group to completed
\* if and only if it has a match and all its matches are completed and have
\* a score row; otherwise to ongoing if one of its matches is completed, and
\* leaves it as it was if none is; a run repeated at once changes no group.
C30_GroupStatusFollowsMatches ==
    [][ out'.op = "update_group_statuses" =>
          /\ \A g \in out'.processed :
                IF AllPlayedAndScored(g)
                THEN group_status'[g] = "completed"
                ELSE IF \E m \in MatchesOf(g) : matches[m].status = "completed"
                THEN group_status'[g] = "ongoing"
                ELSE group_status'[g] = group_status[g]
          /\ \A g \in DOMAIN groups \ out'.processed :
                group_status'[g] = group_status[g]
          /\ out'.again => group_status' = group_status ]_vars

\* a repeated run over a group completed with two scored matches, a group
\* with a completed match without scores, and a group without matches
C30_Witness ==
    /\ out.op = "update_group_statuses"
    /\ out.again
    /\ \E g, h, k \in out.processed :
          /\ AllPlayedAndScored(g)
          /\ Cardinality(MatchesOf(g)) = 2
          /\ group_status[g] = "completed"
          /\ ~AllPlayedAndScored(h)
          /\ group_status[h] = "ongoing"
          /\ MatchesOf(k) = {}
          /\ group_status[k] # "completed"

\* a ranking is complete when no team is ranked, or every team is and the
\* ranks are 1..n, each once
CompleteRanking(ranks) ==
    \/ DOMAIN ranks = {}
    \/ /\ DOMAIN ranks = LeaderTeams
       /\ {ranks[t] : t \in DOMAIN ranks} = 1..Cardinality(LeaderTeams)

\* the ranking the open or latest transaction assigns
NewRanking == [t \in LeaderTeams |-> CHOOSE k \in DOMAIN board.order : board.order[k] = t]

\* C23: a reader of TeamStatistics never sees a ranking in which only some
\* rows carry the ranks of the new assignment: what it reads while the
\* assignment is under way is the complete old ranking, and what it reads at
\* any time, and what it caches and answers with, is a complete ranking.
C23_ReadersSeeWholeRankings ==
    [][ /\ (reader.pc = "idle" /\ reader'.pc = "fetched") =>
              /\ CompleteRanking(reader'.ranks)
              /\ board.pc = "ranking" => reader'.ranks = board.before
              /\ board.pc = "clear cache" => reader'.ranks = NewRanking
        /\ cache'.set => CompleteRanking(cache'.ranks) ]_vars

\* a reader fetched the old ranking while some, not all, new ranks that
\* differ from it were saved
C23_Witness ==
    /\ reader.pc = "fetched"
    /\ board.pc = "ranking"
    /\ board.written \in 1..2
    /\ reader.ranks = board.before
    /\ DOMAIN reader.ranks = LeaderTeams
    /\ reader.ranks[board.order[1]] # 1

=============================================================================
